---- MODULE Spec2Model ----
(***************************************************************************)
(* Model of the AAE orchestrator (aae.py): graph construction by build,    *)
(* the three optimisation steps and the inference entry points.            *)
(*                                                                         *)
(* The computation graph is a sequence of nodes; an attribute of the AAE   *)
(* object holds the index of the node it is bound to (0 = the attribute    *)
(* does not exist, reading it raises AttributeError).  Numerical values    *)
(* are abstracted: each parameter set has one of the values ParamValues    *)
(* and an optimiser step assigns an arbitrary one of them to every set in  *)
(* its var_list.                                                           *)
(***************************************************************************)
EXTENDS Integers, Sequences, FiniteSets, TLC

\* ---------------------------------------------------------------- bounds
MaxStep == 1         \* values the caller may assign to the step counter
MaxRecords == 1      \* capacity of the metric sink
MaxBuilds == 2       \* number of times build may construct a reconstruction subgraph

\* ------------------------------------------------------------- vocabulary
Components == {"encoder", "decoder", "discriminator"}

Placeholders == {"X", "y_labels", "z_inputs"}

GraphAttrs == {"q_z", "recon_imgs", "recon_loss", "recon_loss_summary",
               "L_D", "L_D_summary", "L_G", "L_G_summary",
               "vae_train_op", "disc_train_op", "gen_train_op",
               "latent_space", "generated_imgs"}

AttrNames == Placeholders \cup GraphAttrs

ParamValues == {0, 1}        \* two distinguishable values of a parameter set

GTypes == {1, 2, 3}          \* 3 stands for any value outside {1, 2}

Writers == {"None", "FileWriter"}

TrainOps == {"train_VAE", "train_GENERATOR", "train_DISCRIMINATOR"}

InferOps == {"get_latent_space", "get_reconstructed_images", "get_generated_images"}

VARIABLES graph,      \* the default tf graph: sequence of nodes
          attrs,      \* AAE attributes -> node index (0 = unbound)
          varStore,   \* names registered in the tf variable store
          reuse,      \* reuse flag of the root variable scope
          params,     \* value of each parameter set
          step,       \* AAE.step
          records,    \* the step tags the metric sink has received, in order
          last        \* the last call: what it was and how it ended

vars == <<graph, attrs, varStore, reuse, params, step, records, last>>

\* ------------------------------------------------------------ graph nodes
Node(kind, mode, inputs, ps, var_list) ==
    [kind |-> kind, mode |-> mode, inputs |-> inputs, params |-> ps, var_list |-> var_list]

NullNode == Node("none", "n/a", {}, {}, {})

NodeAt(g, i) == IF i \in 1..Len(g) THEN g[i] ELSE NullNode

\* A build in progress: the graph, the attributes bound so far, the variable
\* store, the reuse flag of the current scope and the exception raised (if any).
\* Every construction step below is skipped once an exception is pending.
AddOp(w, node) ==
    IF w.err # "none" THEN w ELSE [w EXCEPT !.graph = Append(@, node)]

Bind(w, name) ==
    IF w.err # "none" THEN w ELSE [w EXCEPT !.attrs[name] = Len(w.graph)]

Raise(w, e) ==
    IF w.err # "none" THEN w ELSE [w EXCEPT !.err = e]

\* tf.get_variable under the current scope's reuse flag.
GetVariable(w, name) ==
    IF w.err # "none" THEN w
    ELSE IF w.reuse
         THEN IF name \in w.store THEN w ELSE Raise(w, "ValueError")
         ELSE IF name \in w.store THEN Raise(w, "ValueError")
              ELSE [w EXCEPT !.store = @ \cup {name}]

ReuseVariablesNoop(w) == w

\* tf.get_variable_scope().reuse_variables()
ReuseVariables(w) ==
    IF w.err # "none" THEN w ELSE [w EXCEPT !.reuse = TRUE]

\* Encoder / Decoder / Discriminator __call__: resolves the component's
\* parameters in the variable store and adds the component's output node.
CallComponent(w, comp, inputs, is_training) ==
    AddOp(GetVariable(w, comp),
          Node(comp, IF is_training THEN "train" ELSE "infer", inputs, {comp}, {}))

\* Encoder / Decoder / Discriminator get_variables()
GetVariables(w, comp) == {v \in w.store : v = comp}

\* ------------------------------------------------------------------ build
\* AAE._build_VAE_network
build_VAE_network(w) ==
    LET a == Bind(CallComponent(w, "encoder", {w.attrs["X"]}, TRUE), "q_z")
        b == Bind(CallComponent(a, "decoder", {a.attrs["q_z"]}, TRUE), "recon_imgs")
        c == Bind(AddOp(b, Node("recon_loss", "n/a",
                                {b.attrs["recon_imgs"], b.attrs["X"]}, {}, {})),
                  "recon_loss")
    IN  Bind(AddOp(c, Node("Reconstruct_Loss", "n/a", {c.attrs["recon_loss"]}, {}, {})),
             "recon_loss_summary")

GeneratorLossDefaulting(w, G_type, fake_logits) ==
    IF G_type = 1
    THEN Bind(AddOp(w, Node("L_G_type1", "n/a", {fake_logits}, {}, {})), "L_G")
    ELSE Bind(AddOp(w, Node("L_G_type2", "n/a", {fake_logits}, {}, {})), "L_G")

\* the if / elif on G_type in AAE._build_GAN_network: no else branch
GeneratorLoss(w, G_type, fake_logits) ==
    IF G_type = 1
    THEN Bind(AddOp(w, Node("L_G_type1", "n/a", {fake_logits}, {}, {})), "L_G")
    ELSE IF G_type = 2
         THEN Bind(AddOp(w, Node("L_G_type2", "n/a", {fake_logits}, {}, {})), "L_G")
         ELSE w

\* AAE._build_GAN_network.  The with-block enters a copy of the current
\* scope, so the reuse flag set inside it is dropped when the block is left,
\* also when it is left by an exception.
build_GAN_network(w, G_type) ==
    LET f  == CallComponent(w, "discriminator",
                            {w.attrs["q_z"], w.attrs["y_labels"]}, TRUE)
        fake_logits == Len(f.graph)
        r  == ReuseVariables(f)
        t  == CallComponent(r, "discriminator",
                            {r.attrs["z_inputs"], r.attrs["y_labels"]}, TRUE)
        true_logits == Len(t.graph)
        d  == Bind(AddOp(t, Node("L_D", "n/a", {true_logits, fake_logits}, {}, {})), "L_D")
        ds == Bind(AddOp(d, Node("Discriminator_Loss", "n/a", {d.attrs["L_D"]}, {}, {})),
                   "L_D_summary")
        g  == GeneratorLoss(ds, G_type, fake_logits)
        gs == IF g.attrs["L_G"] = 0
              THEN Raise(g, "AttributeError")
              ELSE Bind(AddOp(g, Node("Generator_Loss", "n/a", {g.attrs["L_G"]}, {}, {})),
                        "L_G_summary")
    IN  [gs EXCEPT !.reuse = w.reuse]

\* tf.train.AdamOptimizer(...).minimize: creates its slot variables with
\* get_variable under fresh names, which a scope in reuse mode refuses.
AdamMinimize(w, loss, var_list) ==
    IF w.reuse THEN Raise(w, "ValueError")
    ELSE AddOp(w, Node("Adam", "n/a", {loss}, {}, var_list))

\* tf.train.GradientDescentOptimizer(...).minimize: no slot variables
GradientDescentMinimize(w, loss, var_list) ==
    AddOp(w, Node("GradientDescent", "n/a", {loss}, {}, var_list))

VaeVarListAll(w) ==
    GetVariables(w, "encoder") \cup GetVariables(w, "decoder")
        \cup GetVariables(w, "discriminator")

\* var_list of vae_train_op
VaeVarList(w) == GetVariables(w, "encoder") \cup GetVariables(w, "decoder")

DiscVarListWithEncoder(w) ==
    GetVariables(w, "discriminator") \cup GetVariables(w, "encoder")

\* var_list of disc_train_op
DiscVarList(w) == GetVariables(w, "discriminator")

GenVarListWithDecoder(w) == GetVariables(w, "encoder") \cup GetVariables(w, "decoder")

\* var_list of gen_train_op
GenVarList(w) == GetVariables(w, "encoder")

\* AAE._build_train_ops
build_train_ops(w) ==
    LET a == Bind(AdamMinimize(w, w.attrs["recon_loss"], VaeVarList(w)), "vae_train_op")
        b == Bind(AdamMinimize(a, a.attrs["L_D"], DiscVarList(a)), "disc_train_op")
    IN  Bind(GradientDescentMinimize(b, b.attrs["L_G"], GenVarList(b)), "gen_train_op")

\* AAE.build, as a function of the state it starts from
BuildResult(w, G_type) ==
    LET a == build_VAE_network(w)
        b == build_GAN_network(a, G_type)
        c == build_train_ops(b)
        d == ReuseVariables(c)
        e == Bind(CallComponent(d, "encoder", {d.attrs["X"]}, FALSE), "latent_space")
    IN  Bind(CallComponent(e, "decoder", {e.attrs["z_inputs"]}, FALSE), "generated_imgs")

\* ---------------------------------------------------------- initial state
\* AAE.__init__: the three placeholders, step = 0, nothing built
InitGraph == << Node("X_inputs", "n/a", {}, {}, {}),
                Node("y_labels", "n/a", {}, {}, {}),
                Node("z_inputs", "n/a", {}, {}, {}) >>

InitAttrs == [n \in AttrNames |->
                 IF n = "X" THEN 1 ELSE IF n = "y_labels" THEN 2
                 ELSE IF n = "z_inputs" THEN 3 ELSE 0]

Call(op, err, runs, fetches, ret, G, writer) ==
    [op |-> op, err |-> err, runs |-> runs, fetches |-> fetches, ret |-> ret,
     G |-> G, writer |-> writer]

Init ==
    /\ graph = InitGraph
    /\ attrs = InitAttrs
    /\ varStore = {}
    /\ reuse = FALSE
    /\ params = [c \in Components |-> 0]
    /\ step = 0
    /\ records = << >>
    /\ last = Call("__init__", "none", 0, {}, 0, 0, "-")

\* ---------------------------------------------------------------- actions
\* the reconstruction subgraphs build has constructed so far
Constructions(g) == Cardinality({i \in 1..Len(g) : g[i].kind = "recon_loss"})

\* AAE.build(G_type)
build(G_type) ==
    /\ Constructions(graph) < MaxBuilds
    /\ LET r == BuildResult([graph |-> graph, attrs |-> attrs, store |-> varStore,
                             reuse |-> reuse, err |-> "none"], G_type)
       IN  /\ graph' = r.graph
           /\ attrs' = r.attrs
           /\ varStore' = r.store
           /\ reuse' = r.reuse
           /\ last' = Call("build", r.err, 0, {}, 0, G_type, "-")
    /\ UNCHANGED <<params, step, records>>

AttrsNeverMissing(a, names) == {}

\* Reading self.<name> for each name: the names whose read raises AttributeError
MissingAttrs(a, names) == {n \in names : a[n] = 0}

\* session.run(fetches): the variables the fetched train ops assign
Assigned(g, fetches) == UNION {NodeAt(g, f).var_list : f \in fetches}

\* `if writer:`
Truthy(writer) == writer # "None"

EmitNextStep(recs, writer, summary, s) ==
    IF Truthy(writer) THEN Append(recs, s + 1) ELSE recs

\* `if writer: writer.add_summary(summary, self.step)`: the sink keeps the tag
Emit(recs, writer, summary, s) ==
    IF Truthy(writer) THEN Append(recs, s) ELSE recs

StepAfterCounting(s, writer) == IF Truthy(writer) /\ s < MaxStep THEN s + 1 ELSE s

\* self.step after a training call: the methods read it and never assign it
StepAfter(s, writer) == s

\* The common shape of train_VAE / train_GENERATOR / train_DISCRIMINATOR:
\* one session.run of [train op, loss, summary], an optional record, the loss.
TrainCall(op, train_op, loss, summary, writer) ==
    /\ Truthy(writer) => Len(records) < MaxRecords
    /\ IF MissingAttrs(attrs, {train_op, loss, summary}) # {}
       THEN /\ last' = Call(op, "AttributeError", 0, {}, 0, 0, writer)
            /\ UNCHANGED <<params, records, step>>
       ELSE LET fetches == {attrs[train_op], attrs[loss], attrs[summary]}
                assigned == Assigned(graph, fetches)
            IN  /\ \E new \in [assigned -> ParamValues] :
                       params' = [c \in Components |->
                                     IF c \in assigned THEN new[c] ELSE params[c]]
                /\ records' = Emit(records, writer, attrs[summary], step)
                /\ step' = StepAfter(step, writer)
                /\ last' = Call(op, "none", 1, fetches, attrs[loss], 0, writer)
    /\ UNCHANGED <<graph, attrs, varStore, reuse>>

train_VAE(writer) ==
    TrainCall("train_VAE", "vae_train_op", "recon_loss", "recon_loss_summary", writer)

train_GENERATOR(writer) ==
    TrainCall("train_GENERATOR", "gen_train_op", "L_G", "L_G_summary", writer)

\* the prior sample p_z only enters the values the step computes
train_DISCRIMINATOR(writer) ==
    TrainCall("train_DISCRIMINATOR", "disc_train_op", "L_D", "L_D_summary", writer)

\* The common shape of the get_* methods: one session.run of one tensor
InferCall(op, tensor) ==
    /\ IF MissingAttrs(attrs, {tensor}) # {}
       THEN last' = Call(op, "AttributeError", 0, {}, 0, 0, "-")
       ELSE last' = Call(op, "none", 1, {attrs[tensor]}, attrs[tensor], 0, "-")
    /\ UNCHANGED <<graph, attrs, varStore, reuse, params, step, records>>

get_latent_space == InferCall("get_latent_space", "latent_space")

get_reconstructed_images == InferCall("get_reconstructed_images", "recon_imgs")

get_generated_images == InferCall("get_generated_images", "generated_imgs")

\* the caller assigns model.step
assign_step(n) ==
    /\ step' = n
    /\ last' = Call("assign_step", "none", 0, {}, 0, 0, "-")
    /\ UNCHANGED <<graph, attrs, varStore, reuse, params, records>>

Next ==
    \/ \E G_type \in GTypes : build(G_type)
    \/ \E writer \in Writers : train_VAE(writer)
    \/ \E writer \in Writers : train_GENERATOR(writer)
    \/ \E writer \in Writers : train_DISCRIMINATOR(writer)
    \/ get_latent_space
    \/ get_reconstructed_images
    \/ get_generated_images
    \/ \E n \in 0..MaxStep : assign_step(n)

Spec == Init /\ [][Next]_vars

\* ------------------------------------------------------------- properties
TrainOpAttr(op) ==
    IF op = "train_VAE" THEN "vae_train_op"
    ELSE IF op = "train_GENERATOR" THEN "gen_train_op" ELSE "disc_train_op"

LossAttr(op) ==
    IF op = "train_VAE" THEN "recon_loss"
    ELSE IF op = "train_GENERATOR" THEN "L_G" ELSE "L_D"

SummaryAttr(op) ==
    IF op = "train_VAE" THEN "recon_loss_summary"
    ELSE IF op = "train_GENERATOR" THEN "L_G_summary" ELSE "L_D_summary"

\* build has run to completion at least once
Built == attrs["generated_imgs"] # 0

BoundAttrs == {n \in AttrNames : attrs[n] # 0}

\* build has never been called: a build call binds q_z before anything can fail
Unbuilt == BoundAttrs = Placeholders

\* what a first build with a G_type outside {1, 2} leaves behind
PartiallyBuilt ==
    /\ BoundAttrs = Placeholders \cup {"q_z", "recon_imgs", "recon_loss",
                                       "recon_loss_summary", "L_D", "L_D_summary"}
    /\ Cardinality({i \in 1..Len(graph) : graph[i].kind = "discriminator"}) = 2

\* the nodes a fetch of the nodes in S evaluates
RECURSIVE Upstream(_, _)
Upstream(g, S) ==
    LET T == S \cup UNION {NodeAt(g, i).inputs : i \in S}
    IN  IF T = S THEN S ELSE Upstream(g, T)

\* C1: a train_GENERATOR call leaves the discriminator parameters and the
\* decoder parameters as they were; only the encoder's may change.
C1_GeneratorStepFrame ==
    [][last'.op = "train_GENERATOR" =>
          /\ params'["discriminator"] = params["discriminator"]
          /\ params'["decoder"] = params["decoder"]]_vars

C1_Witness ==
    /\ last.op = "train_GENERATOR" /\ last.err = "none"
    /\ params["encoder"] = 1 /\ params["decoder"] = 0 /\ params["discriminator"] = 0

\* C2: a train_DISCRIMINATOR call leaves the encoder parameters and the
\* decoder parameters as they were; only the discriminator's may change.
C2_DiscriminatorStepFrame ==
    [][last'.op = "train_DISCRIMINATOR" =>
          /\ params'["encoder"] = params["encoder"]
          /\ params'["decoder"] = params["decoder"]]_vars

C2_Witness ==
    /\ last.op = "train_DISCRIMINATOR" /\ last.err = "none"
    /\ params["discriminator"] = 1 /\ params["encoder"] = 0 /\ params["decoder"] = 0

\* C3: a train_VAE call leaves the discriminator parameters as they were;
\* only the encoder's and the decoder's may change.
C3_ReconstructionStepFrame ==
    [][last'.op = "train_VAE" =>
          params'["discriminator"] = params["discriminator"]]_vars

C3_Witness ==
    /\ last.op = "train_VAE" /\ last.err = "none"
    /\ params["encoder"] = 1 /\ params["decoder"] = 1 /\ params["discriminator"] = 0

\* C4: once build has been called, L_D is defined over two Discriminator
\* invocations, one on q_z and one on the prior placeholder, and both resolved
\* to the one discriminator parameter set registered in the variable store.
C4_DiscriminatorParamsShared ==
    ~Unbuilt =>
        /\ attrs["L_D"] # 0
        /\ LET logits == NodeAt(graph, attrs["L_D"]).inputs
           IN  /\ Cardinality(logits) = 2
               /\ \A i \in logits :
                      /\ NodeAt(graph, i).kind = "discriminator"
                      /\ NodeAt(graph, i).params = {"discriminator"}
               /\ \E i \in logits : attrs["q_z"] \in NodeAt(graph, i).inputs
               /\ \E i \in logits : attrs["z_inputs"] \in NodeAt(graph, i).inputs
        /\ {v \in varStore : v \notin {"encoder", "decoder"}} = {"discriminator"}

C4_Witness ==
    /\ last.op = "build" /\ last.err = "none" /\ Constructions(graph) = 1
    /\ Cardinality({i \in 1..Len(graph) : graph[i].kind = "discriminator"}) = 2
    /\ varStore = Components

\* C5: on a model built once, every inference entry point that returns
\* evaluates only component invocations constructed with is_training=False.
C5_InferenceUsesFrozenSubgraphs ==
    (last.op \in InferOps /\ last.err = "none" /\ Constructions(graph) = 1) =>
        \A i \in Upstream(graph, last.fetches) :
            NodeAt(graph, i).kind \in Components => NodeAt(graph, i).mode = "infer"

C7_RebuildRejected ==
    [][(Built /\ last'.op = "build") =>
          /\ last'.err # "none"
          /\ UNCHANGED <<graph, attrs, varStore, reuse, params>>]_vars

\* C8: a training call on a model that has its train op, loss and summary
\* runs the session once with the train op among the fetches and returns the
\* loss; with a writer it appends exactly one record, tagged with the step
\* counter's value at the call, and without a writer it appends none.
C8_OneRecordPerLoggedCall ==
    [][(last'.op \in TrainOps /\ attrs[TrainOpAttr(last'.op)] # 0) =>
          /\ last'.err = "none"
          /\ last'.runs = 1
          /\ last'.fetches = {attrs[TrainOpAttr(last'.op)], attrs[LossAttr(last'.op)],
                               attrs[SummaryAttr(last'.op)]}
          /\ last'.ret = attrs[LossAttr(last'.op)]
          /\ last'.writer = "FileWriter" => records' = Append(records, step)
          /\ last'.writer = "None" => records' = records]_vars

C8_Witness ==
    /\ last.op = "train_GENERATOR" /\ last.err = "none" /\ last.writer = "FileWriter"
    /\ step = 1
    /\ records = << 1 >>

\* C9: a first build with a G_type outside {1, 2} raises at the generator-loss
\* summary and leaves exactly the reconstruction subgraph, the two
\* discriminator invocations and L_D; the model then stays that way, every
\* training call, get_latent_space and get_generated_images raise, and
\* get_reconstructed_images still runs.
C9_InvalidGTypePartialBuild ==
    [][/\ (Unbuilt /\ last'.op = "build" /\ last'.G \notin {1, 2}) =>
              (last'.err = "AttributeError" /\ PartiallyBuilt')
       /\ PartiallyBuilt => PartiallyBuilt'
       /\ (PartiallyBuilt /\ last'.op \in TrainOps \cup {"get_latent_space",
                                                         "get_generated_images"}) =>
              (last'.err # "none" /\ last'.runs = 0)
       /\ (PartiallyBuilt /\ last'.op = "get_reconstructed_images") =>
              last'.err = "none"]_vars

C9_Witness ==
    /\ PartiallyBuilt
    /\ last.op = "train_VAE" /\ last.err = "AttributeError"

\* C10: only the caller's assignment changes the step counter; every method
\* leaves it as it was, and a record a method emits carries that value.
C10_StepOnlyAssignedByCaller ==
    [][last'.op # "assign_step" =>
          /\ step' = step
          /\ Len(records') > Len(records) => records'[Len(records')] = step]_vars

C10_Witness ==
    /\ last.op \in TrainOps /\ last.err = "none" /\ last.writer = "FileWriter"
    /\ step = 1 /\ Len(records) > 0 /\ records[Len(records)] = 1

====
